---- MODULE Spec2Model ----
(***************************************************************************)
(* Model of the university record API (src/main.py, src/models.py,        *)
(* src/database.py): three tables (estudiante, curso, matricula) and the  *)
(* request handlers that read and write them through a per-request        *)
(* session.                                                                *)
(*                                                                         *)
(* Every handler is an operator from the request (and the tables it       *)
(* reads) to its result: the status of the response and the tables as     *)
(* they are after sesion.commit().                                         *)
(*                                                                         *)
(* Spec      : every request is served in one atomic step (requests one   *)
(*             after another).                                             *)
(* SpecConc  : matricular_estudiante, eliminar_estudiante and             *)
(*             eliminar_curso run in concurrent sessions, one database    *)
(*             access per step (FastAPI runs "def" handlers in a thread   *)
(*             pool; the handlers take no lock).                           *)
(*                                                                         *)
(* Optional[T] values are modelled as <<>> (None) or <<v>>.  Course codes *)
(* and the code filter are sequences of characters.                       *)
(***************************************************************************)
EXTENDS Integers, Sequences, FiniteSets, TLC

\* ---------------------------------------------------------------- bounds
MaxEstId == 2
MaxCurId == 2
MaxMatId == 2

EstIds == 1..MaxEstId
CurIds == 1..MaxCurId
MatIds == 1..MaxMatId

\* ------------------------------------------------------ program constants
SEMESTRE_MIN == 1
SEMESTRE_MAX == 12
CREDITOS_MIN == 1
CREDITOS_MAX == 10

HTTP_OK == 200
HTTP_BAD_REQUEST == 400
HTTP_NOT_FOUND == 404
HTTP_UNPROCESSABLE == 422
HTTP_SERVER_ERROR == 500

\* ------------------------------------------------------------ input sets
None == <<>>
Some(v) == <<v>>

Cedulas == {"1001", "1002"}
Codigos == {<<"C", "S">>, <<"M", "A">>}

\* name, email and semester of a request body: two that pass validation ...
PerfilesEst ==
  { [nombre |-> "Ana",  email |-> "ana@u.edu",  semestre |-> 1],
    [nombre |-> "Luis", email |-> "luis@u.edu", semestre |-> 12] }
\* ... and one that does not (below the range)
PerfilesEstMalos ==
  { [nombre |-> "Ana",  email |-> "ana@u.edu",  semestre |-> 0] }

\* name, timetable and credits of a course body: one that passes validation
PerfilesCur ==
  { [nombre |-> "Calculo", horario |-> "L-8",  creditos |-> 10] }
\* one that does not pass validation (above the range)
PerfilesCurMalos ==
  { [nombre |-> "Redes",   horario |-> "M-10", creditos |-> 11] }

\* the id field of a body: absent (the store assigns it) or given by the client
BodyIds == {None, Some(1)}

CuerpoEstudiante(i, c, pf) ==
  [id |-> i, cedula |-> c, nombre |-> pf.nombre, email |-> pf.email,
   semestre |-> pf.semestre]

CuerpoCurso(i, c, pf) ==
  [id |-> i, codigo |-> c, nombre |-> pf.nombre, creditos |-> pf.creditos,
   horario |-> pf.horario]

EstudianteBodies ==
  {CuerpoEstudiante(i, c, pf) : i \in BodyIds, c \in Cedulas, pf \in PerfilesEst}
    \cup {CuerpoEstudiante(None, "1001", pf) : pf \in PerfilesEstMalos}

CursoBodies ==
  {CuerpoCurso(i, c, pf) : i \in BodyIds, c \in Codigos, pf \in PerfilesCur}
    \cup {CuerpoCurso(None, <<"C", "S">>, pf) : pf \in PerfilesCurMalos}

\* bodies of the update requests: the handlers never read the body's id
EstudianteUpdates == {e \in EstudianteBodies : e.id = None}
CursoUpdates == {c \in CursoBodies : c.id = None}

\* query parameters of the two list handlers
FiltroEnteros == {0, 1, 10, 12, 13}
FiltroCodigos == {<<>>, <<"C">>, <<"S">>, <<"C", "S">>, <<"S", "C">>, <<"A">>}

Sesiones == {1, 2}

VARIABLES estudiantes, cursos, matriculas, ses, valida_cuerpo

db == <<estudiantes, cursos, matriculas>>
vars == <<estudiantes, cursos, matriculas, ses, valida_cuerpo>>

\* ------------------------------------------------------------ the tables
\* Estudiante and Curso are declared table=True and are themselves the type
\* of the request bodies; the handlers hold no range check of their own.
\* Whether the declared Field(ge=, le=) is applied to such a body is decided
\* by the installed SQLModel/Pydantic, which the repository does not pin: a
\* table model built through its __init__ is populated without validation,
\* a body run through the model's validator is checked.  valida_cuerpo is
\* that property of the build, fixed when the application starts.
\* models.py: semestre: int = Field(ge=1, le=12)
ValidaEstudiante(e) ==
  valida_cuerpo => (e.semestre >= SEMESTRE_MIN /\ e.semestre <= SEMESTRE_MAX)

\* models.py: creditos: int = Field(ge=1, le=10)
ValidaCurso(c) ==
  valida_cuerpo => (c.creditos >= CREDITOS_MIN /\ c.creditos <= CREDITOS_MAX)

Max(S) == CHOOSE x \in S : \A y \in S : y <= x

\* INTEGER PRIMARY KEY with no value given: one more than the largest in use
SiguienteId(usados) == IF usados = {} THEN 1 ELSE Max(usados) + 1

FilaEstudiante(e) ==
  [cedula |-> e.cedula, nombre |-> e.nombre, email |-> e.email,
   semestre |-> e.semestre]

FilaCurso(c) ==
  [codigo |-> c.codigo, nombre |-> c.nombre, creditos |-> c.creditos,
   horario |-> c.horario]

Quitar(f, k) == [x \in (DOMAIN f) \ {k} |-> f[x]]
Poner(f, k, v) == [x \in (DOMAIN f) \cup {k} |-> IF x = k THEN v ELSE f[x]]

\* select(Estudiante).where(Estudiante.cedula == cedula).first()
CedulaRegistrada(cedula) == \E i \in DOMAIN estudiantes : estudiantes[i].cedula = cedula
\* select(Curso).where(Curso.codigo == codigo).first()
CodigoRegistrado(codigo) == \E i \in DOMAIN cursos : cursos[i].codigo = codigo

\* select(Matricula).where(estudiante_id == e, curso_id == c)
MatriculasDelPar(e, c) == {m \in matriculas : m.estudiante_id = e /\ m.curso_id = c}
\* select(Matricula).where(Matricula.estudiante_id == e).all()
MatriculasDeEstudiante(e) == {m \in matriculas : m.estudiante_id = e}
\* select(Matricula).where(Matricula.curso_id == c).all()
MatriculasDeCurso(c) == {m \in matriculas : m.curso_id = c}

\* .first(): the row with the lowest id
Primera(filas) == CHOOSE x \in filas : \A y \in filas : x.id <= y.id

IdsDeMatriculas == {m.id : m \in matriculas}

\* Matricula(estudiante_id=..., curso_id=...), its id assigned on insert
NuevaMatricula(e, c) ==
  [id |-> SiguienteId(IdsDeMatriculas), estudiante_id |-> e, curso_id |-> c]

\* what a handler leaves behind: the status and the committed tables
Resultado(status, E, C, M) ==
  [status |-> status, estudiantes |-> E, cursos |-> C, matriculas |-> M]
\* raise HTTPException, or the commit fails: nothing is written
Rechazo(status) == Resultado(status, estudiantes, cursos, matriculas)

\* a session that is handling no request
Libre == [pc |-> "libre", est |-> 0, cur |-> 0, filas |-> {}]

TypeOK ==
  /\ DOMAIN estudiantes \subseteq EstIds
  /\ DOMAIN cursos \subseteq CurIds
  /\ \A m \in matriculas : m.id \in MatIds
  /\ valida_cuerpo \in BOOLEAN

Init ==
  /\ estudiantes = << >>
  /\ cursos = << >>
  /\ matriculas = {}
  /\ ses = [s \in Sesiones |-> Libre]
  /\ valida_cuerpo \in BOOLEAN

\* ----------------------------------------------------- student handlers
\* variant: the cedula check of lines 30-32 left out
crear_estudiante_sin_cedula(estudiante) ==
  IF ~ValidaEstudiante(estudiante) THEN Rechazo(HTTP_UNPROCESSABLE)
  ELSE IF estudiante.id = None
  THEN Resultado(HTTP_OK,
                 Poner(estudiantes, SiguienteId(DOMAIN estudiantes),
                       FilaEstudiante(estudiante)),
                 cursos, matriculas)
  ELSE IF estudiante.id[1] \in DOMAIN estudiantes THEN Rechazo(HTTP_SERVER_ERROR)
  ELSE Resultado(HTTP_OK,
                 Poner(estudiantes, estudiante.id[1], FilaEstudiante(estudiante)),
                 cursos, matriculas)

crear_estudiante(estudiante) ==
  IF ~ValidaEstudiante(estudiante) THEN Rechazo(HTTP_UNPROCESSABLE)
  ELSE IF CedulaRegistrada(estudiante.cedula) THEN Rechazo(HTTP_BAD_REQUEST)
  ELSE IF estudiante.id = None
  THEN Resultado(HTTP_OK,
                 Poner(estudiantes, SiguienteId(DOMAIN estudiantes),
                       FilaEstudiante(estudiante)),
                 cursos, matriculas)
  \* a client-given id that is taken: the INSERT violates the primary key
  ELSE IF estudiante.id[1] \in DOMAIN estudiantes THEN Rechazo(HTTP_SERVER_ERROR)
  ELSE Resultado(HTTP_OK,
                 Poner(estudiantes, estudiante.id[1], FilaEstudiante(estudiante)),
                 cursos, matriculas)

\* "if semestre:" of an Optional[int]: None and 0 are both false
TruthyInt(opt) == opt # None /\ opt[1] # 0
\* "if codigo:" of an Optional[str]: None and "" are both false
TruthyStr(opt) == opt # None /\ Len(opt[1]) > 0

listar_estudiantes(semestre) ==
  IF TruthyInt(semestre)
  THEN {i \in DOMAIN estudiantes : estudiantes[i].semestre = semestre[1]}
  ELSE DOMAIN estudiantes

\* variant: the cedula is looked up even when it is not being changed
actualizar_estudiante_siempre_valida(estudiante_id, datos_actualizacion) ==
  IF ~ValidaEstudiante(datos_actualizacion) THEN Rechazo(HTTP_UNPROCESSABLE)
  ELSE IF estudiante_id \notin DOMAIN estudiantes THEN Rechazo(HTTP_NOT_FOUND)
  ELSE IF CedulaRegistrada(datos_actualizacion.cedula) THEN Rechazo(HTTP_BAD_REQUEST)
  ELSE Resultado(HTTP_OK,
                 [estudiantes EXCEPT
                    ![estudiante_id] = FilaEstudiante(datos_actualizacion)],
                 cursos, matriculas)

actualizar_estudiante(estudiante_id, datos_actualizacion) ==
  IF ~ValidaEstudiante(datos_actualizacion) THEN Rechazo(HTTP_UNPROCESSABLE)
  ELSE IF estudiante_id \notin DOMAIN estudiantes THEN Rechazo(HTTP_NOT_FOUND)
  ELSE IF /\ datos_actualizacion.cedula # estudiantes[estudiante_id].cedula
          /\ CedulaRegistrada(datos_actualizacion.cedula)
  THEN Rechazo(HTTP_BAD_REQUEST)
  ELSE Resultado(HTTP_OK,
                 [estudiantes EXCEPT
                    ![estudiante_id] = FilaEstudiante(datos_actualizacion)],
                 cursos, matriculas)

\* variant: the cascade of lines 114-116 left out
eliminar_estudiante_sin_cascada(estudiante_id) ==
  IF estudiante_id \notin DOMAIN estudiantes THEN Rechazo(HTTP_NOT_FOUND)
  ELSE Resultado(HTTP_OK, Quitar(estudiantes, estudiante_id), cursos, matriculas)

eliminar_estudiante(estudiante_id) ==
  IF estudiante_id \notin DOMAIN estudiantes THEN Rechazo(HTTP_NOT_FOUND)
  ELSE Resultado(HTTP_OK, Quitar(estudiantes, estudiante_id), cursos,
                 matriculas \ MatriculasDeEstudiante(estudiante_id))

\* ------------------------------------------------------ course handlers
crear_curso(curso) ==
  IF ~ValidaCurso(curso) THEN Rechazo(HTTP_UNPROCESSABLE)
  ELSE IF CodigoRegistrado(curso.codigo) THEN Rechazo(HTTP_BAD_REQUEST)
  ELSE IF curso.id = None
  THEN Resultado(HTTP_OK, estudiantes,
                 Poner(cursos, SiguienteId(DOMAIN cursos), FilaCurso(curso)),
                 matriculas)
  ELSE IF curso.id[1] \in DOMAIN cursos THEN Rechazo(HTTP_SERVER_ERROR)
  ELSE Resultado(HTTP_OK, estudiantes,
                 Poner(cursos, curso.id[1], FilaCurso(curso)), matriculas)

\* Curso.codigo.contains(codigo): codigo occurs inside the stored code
Contiene(texto, parte) ==
  \E k \in 0..(Len(texto) - Len(parte)) : SubSeq(texto, k + 1, k + Len(parte)) = parte

listar_cursos(creditos, codigo) ==
  {i \in DOMAIN cursos :
     /\ (TruthyInt(creditos) => cursos[i].creditos = creditos[1])
     /\ (TruthyStr(codigo) => Contiene(cursos[i].codigo, codigo[1]))}

actualizar_curso(curso_id, datos_actualizacion) ==
  IF ~ValidaCurso(datos_actualizacion) THEN Rechazo(HTTP_UNPROCESSABLE)
  ELSE IF curso_id \notin DOMAIN cursos THEN Rechazo(HTTP_NOT_FOUND)
  ELSE IF /\ datos_actualizacion.codigo # cursos[curso_id].codigo
          /\ CodigoRegistrado(datos_actualizacion.codigo)
  THEN Rechazo(HTTP_BAD_REQUEST)
  ELSE Resultado(HTTP_OK, estudiantes,
                 [cursos EXCEPT ![curso_id] = FilaCurso(datos_actualizacion)],
                 matriculas)

eliminar_curso(curso_id) ==
  IF curso_id \notin DOMAIN cursos THEN Rechazo(HTTP_NOT_FOUND)
  ELSE Resultado(HTTP_OK, estudiantes, Quitar(cursos, curso_id),
                 matriculas \ MatriculasDeCurso(curso_id))

\* -------------------------------------------------- enrollment handlers
\* variant: the duplicate check of lines 242-250 left out
matricular_estudiante_sin_duplicado(estudiante_id, curso_id) ==
  IF estudiante_id \notin DOMAIN estudiantes THEN Rechazo(HTTP_NOT_FOUND)
  ELSE IF curso_id \notin DOMAIN cursos THEN Rechazo(HTTP_NOT_FOUND)
  ELSE Resultado(HTTP_OK, estudiantes, cursos,
                 matriculas \cup {NuevaMatricula(estudiante_id, curso_id)})

\* variant: the existence checks of lines 253-259 left out
matricular_estudiante_sin_verificar(estudiante_id, curso_id) ==
  IF MatriculasDelPar(estudiante_id, curso_id) # {} THEN Rechazo(HTTP_BAD_REQUEST)
  ELSE Resultado(HTTP_OK, estudiantes, cursos,
                 matriculas \cup {NuevaMatricula(estudiante_id, curso_id)})

matricular_estudiante(estudiante_id, curso_id) ==
  IF MatriculasDelPar(estudiante_id, curso_id) # {} THEN Rechazo(HTTP_BAD_REQUEST)
  ELSE IF estudiante_id \notin DOMAIN estudiantes THEN Rechazo(HTTP_NOT_FOUND)
  ELSE IF curso_id \notin DOMAIN cursos THEN Rechazo(HTTP_NOT_FOUND)
  ELSE Resultado(HTTP_OK, estudiantes, cursos,
                 matriculas \cup {NuevaMatricula(estudiante_id, curso_id)})

desmatricular_estudiante(estudiante_id, curso_id) ==
  IF MatriculasDelPar(estudiante_id, curso_id) = {} THEN Rechazo(HTTP_NOT_FOUND)
  ELSE Resultado(HTTP_OK, estudiantes, cursos,
                 matriculas \ {Primera(MatriculasDelPar(estudiante_id, curso_id))})

\* ------------------------------------------------- relationship queries
\* .all(): the rows in id order
RECURSIVE EnOrden(_)
EnOrden(filas) ==
  IF filas = {} THEN << >>
  ELSE <<Primera(filas)>> \o EnOrden(filas \ {Primera(filas)})

\* the loop "curso = sesion.get(Curso, id); if curso: cursos.append(curso)"
RECURSIVE Resolver(_, _)
Resolver(ids, existentes) ==
  IF ids = << >> THEN << >>
  ELSE (IF Head(ids) \in existentes THEN <<Head(ids)>> ELSE << >>)
       \o Resolver(Tail(ids), existentes)

IdsCurso(filas) == [k \in 1..Len(filas) |-> filas[k].curso_id]
IdsEstudiante(filas) == [k \in 1..Len(filas) |-> filas[k].estudiante_id]

\* the two queries over given tables E (students), C (courses), M (rows)
\* variant: the rows are selected by the wrong column
CursosDelEstudianteOtraColumna(E, C, M, estudiante_id) ==
  IF estudiante_id \notin DOMAIN E
  THEN [status |-> HTTP_NOT_FOUND, lista |-> << >>, total |-> 0]
  ELSE LET filas == {m \in M : m.curso_id = estudiante_id}
           lista == Resolver(IdsCurso(EnOrden(filas)), DOMAIN C)
       IN [status |-> HTTP_OK, lista |-> lista, total |-> Len(lista)]

CursosDelEstudiante(E, C, M, estudiante_id) ==
  IF estudiante_id \notin DOMAIN E
  THEN [status |-> HTTP_NOT_FOUND, lista |-> << >>, total |-> 0]
  ELSE LET filas == {m \in M : m.estudiante_id = estudiante_id}
           lista == Resolver(IdsCurso(EnOrden(filas)), DOMAIN C)
       IN [status |-> HTTP_OK, lista |-> lista, total |-> Len(lista)]

EstudiantesDelCurso(E, C, M, curso_id) ==
  IF curso_id \notin DOMAIN C
  THEN [status |-> HTTP_NOT_FOUND, lista |-> << >>, total |-> 0]
  ELSE LET filas == {m \in M : m.curso_id = curso_id}
           lista == Resolver(IdsEstudiante(EnOrden(filas)), DOMAIN E)
       IN [status |-> HTTP_OK, lista |-> lista, total |-> Len(lista)]

cursos_del_estudiante(estudiante_id) ==
  CursosDelEstudiante(estudiantes, cursos, matriculas, estudiante_id)

estudiantes_del_curso(curso_id) ==
  EstudiantesDelCurso(estudiantes, cursos, matriculas, curso_id)

\* ------------------------------------------------- serving one request
\* the handler's tables are committed (the status goes to the client); ids
\* stay within the modelled range
Servir(r) ==
  /\ DOMAIN r.estudiantes \subseteq EstIds
  /\ DOMAIN r.cursos \subseteq CurIds
  /\ \A m \in r.matriculas : m.id \in MatIds
  /\ estudiantes' = r.estudiantes
  /\ cursos' = r.cursos
  /\ matriculas' = r.matriculas
  /\ UNCHANGED <<ses, valida_cuerpo>>

PostEstudiantes(e) == Servir(crear_estudiante(e))
PutEstudiante(i, e) == Servir(actualizar_estudiante(i, e))
DeleteEstudiante(i) == Servir(eliminar_estudiante(i))
PostCursos(c) == Servir(crear_curso(c))
PutCurso(i, c) == Servir(actualizar_curso(i, c))
DeleteCurso(i) == Servir(eliminar_curso(i))
PostMatriculas(e, c) == Servir(matricular_estudiante(e, c))
DeleteMatricula(e, c) == Servir(desmatricular_estudiante(e, c))

Next ==
  \/ \E e \in EstudianteBodies : PostEstudiantes(e)
  \/ \E i \in EstIds, e \in EstudianteUpdates : PutEstudiante(i, e)
  \/ \E i \in EstIds : DeleteEstudiante(i)
  \/ \E c \in CursoBodies : PostCursos(c)
  \/ \E i \in CurIds, c \in CursoUpdates : PutCurso(i, c)
  \/ \E i \in CurIds : DeleteCurso(i)
  \/ \E e \in EstIds, c \in CurIds : PostMatriculas(e, c)
  \/ \E e \in EstIds, c \in CurIds : DeleteMatricula(e, c)

\* ------------------------------------------------------------------------
\* The same handlers, one database access per step, in concurrent sessions.
\* A session's reads see what is committed at the time of the read; its
\* writes reach the store at sesion.commit().  The matricula table declares
\* no uniqueness constraint on (estudiante_id, curso_id), and database.py
\* builds a SQLite engine without turning foreign-key enforcement on, so an
\* INSERT into matricula is rejected by neither.
\* ------------------------------------------------------------------------
EnPaso(s, pc) == ses[s].pc = pc
Pasar(s, pc) == ses' = [ses EXCEPT ![s].pc = pc]
Terminar(s) == ses' = [ses EXCEPT ![s] = Libre]

matricular_existente(s, estudiante_id, curso_id) ==
  /\ EnPaso(s, "libre")
  /\ UNCHANGED valida_cuerpo
  /\ UNCHANGED db
  /\ IF MatriculasDelPar(estudiante_id, curso_id) # {}
     THEN UNCHANGED ses
     ELSE ses' = [ses EXCEPT ![s] = [pc |-> "matricular_get_estudiante", est |-> estudiante_id,
                                      cur |-> curso_id, filas |-> {}]]

matricular_get_estudiante(s) ==
  /\ EnPaso(s, "matricular_get_estudiante")
  /\ UNCHANGED valida_cuerpo
  /\ UNCHANGED db
  /\ IF ses[s].est \notin DOMAIN estudiantes
     THEN Terminar(s)
     ELSE Pasar(s, "matricular_get_curso")

matricular_get_curso(s) ==
  /\ EnPaso(s, "matricular_get_curso")
  /\ UNCHANGED valida_cuerpo
  /\ UNCHANGED db
  /\ IF ses[s].cur \notin DOMAIN cursos
     THEN Terminar(s)
     ELSE Pasar(s, "matricular_commit")

matricular_commit(s) ==
  /\ EnPaso(s, "matricular_commit")
  /\ UNCHANGED valida_cuerpo
  /\ SiguienteId(IdsDeMatriculas) <= MaxMatId
  /\ matriculas' = matriculas \cup {NuevaMatricula(ses[s].est, ses[s].cur)}
  /\ UNCHANGED <<estudiantes, cursos>>
  /\ Terminar(s)

\* DELETE ... WHERE id = ? for every row the session read
BorrarFilas(filas) == {m \in matriculas : m.id \notin {f.id : f \in filas}}

eliminar_estudiante_get(s, estudiante_id) ==
  /\ EnPaso(s, "libre")
  /\ UNCHANGED valida_cuerpo
  /\ UNCHANGED db
  /\ IF estudiante_id \notin DOMAIN estudiantes
     THEN UNCHANGED ses
     ELSE ses' = [ses EXCEPT ![s] = [pc |-> "eliminar_estudiante_select", est |-> estudiante_id,
                                      cur |-> 0, filas |-> {}]]

eliminar_estudiante_select(s) ==
  /\ EnPaso(s, "eliminar_estudiante_select")
  /\ UNCHANGED valida_cuerpo
  /\ UNCHANGED db
  /\ ses' = [ses EXCEPT ![s].pc = "eliminar_estudiante_commit",
                        ![s].filas = MatriculasDeEstudiante(ses[s].est)]

eliminar_estudiante_commit(s) ==
  /\ EnPaso(s, "eliminar_estudiante_commit")
  /\ UNCHANGED valida_cuerpo
  /\ matriculas' = BorrarFilas(ses[s].filas)
  /\ estudiantes' = Quitar(estudiantes, ses[s].est)
  /\ UNCHANGED cursos
  /\ Terminar(s)

eliminar_curso_get(s, curso_id) ==
  /\ EnPaso(s, "libre")
  /\ UNCHANGED valida_cuerpo
  /\ UNCHANGED db
  /\ IF curso_id \notin DOMAIN cursos
     THEN UNCHANGED ses
     ELSE ses' = [ses EXCEPT ![s] = [pc |-> "eliminar_curso_select", est |-> 0,
                                      cur |-> curso_id, filas |-> {}]]

eliminar_curso_select(s) ==
  /\ EnPaso(s, "eliminar_curso_select")
  /\ UNCHANGED valida_cuerpo
  /\ UNCHANGED db
  /\ ses' = [ses EXCEPT ![s].pc = "eliminar_curso_commit",
                        ![s].filas = MatriculasDeCurso(ses[s].cur)]

eliminar_curso_commit(s) ==
  /\ EnPaso(s, "eliminar_curso_commit")
  /\ UNCHANGED valida_cuerpo
  /\ matriculas' = BorrarFilas(ses[s].filas)
  /\ cursos' = Quitar(cursos, ses[s].cur)
  /\ UNCHANGED estudiantes
  /\ Terminar(s)

\* bodies used to fill the tables in the concurrent specification
EstudianteBodiesConc ==
  {e \in EstudianteBodies : e.id = None /\ e.semestre = SEMESTRE_MIN}
CursoBodiesConc ==
  {c \in CursoBodies : c.id = None /\ c.creditos = CREDITOS_MAX}

NextConc ==
  \/ \E e \in EstudianteBodiesConc : PostEstudiantes(e)
  \/ \E c \in CursoBodiesConc : PostCursos(c)
  \/ \E s \in Sesiones, e \in EstIds, c \in CurIds : matricular_existente(s, e, c)
  \/ \E s \in Sesiones : matricular_get_estudiante(s)
  \/ \E s \in Sesiones : matricular_get_curso(s)
  \/ \E s \in Sesiones : matricular_commit(s)
  \/ \E s \in Sesiones, e \in EstIds : eliminar_estudiante_get(s, e)
  \/ \E s \in Sesiones : eliminar_estudiante_select(s)
  \/ \E s \in Sesiones : eliminar_estudiante_commit(s)
  \/ \E s \in Sesiones, c \in CurIds : eliminar_curso_get(s, c)
  \/ \E s \in Sesiones : eliminar_curso_select(s)
  \/ \E s \in Sesiones : eliminar_curso_commit(s)

Spec == Init /\ [][Next]_vars

SpecConc == Init /\ [][NextConc]_vars


\* ========================================================================
\* Properties.  A property of a handler is stated for every request of the
\* input sets in every reachable state: the handler's result there is what the
\* step serving that request commits and answers.
\* ========================================================================
Elementos(lista) == {lista[k] : k \in 1..Len(lista)}
SinEscribir(r) ==
  r.estudiantes = estudiantes /\ r.cursos = cursos /\ r.matriculas = matriculas
CursosMatriculados(e) == {c \in CurIds : MatriculasDelPar(e, c) # {}}
EstudiantesMatriculados(c) == {e \in EstIds : MatriculasDelPar(e, c) # {}}
EnRangoEst(b) == b.semestre \in SEMESTRE_MIN..SEMESTRE_MAX
EnRangoCur(b) == b.creditos \in CREDITOS_MIN..CREDITOS_MAX

SinParesRepetidos ==
  \A m1, m2 \in matriculas :
    (m1.estudiante_id = m2.estudiante_id /\ m1.curso_id = m2.curso_id) => m1 = m2

SinReferenciasColgantes ==
  \A m \in matriculas :
    m.estudiante_id \in DOMAIN estudiantes /\ m.curso_id \in DOMAIN cursos

\* C1: requests served one after another never leave two matricula rows with
\* the same (estudiante_id, curso_id); a matricular request for a pair that
\* already has a row is answered 400 and writes nothing.
C1_MatriculaUnica ==
  /\ SinParesRepetidos
  /\ \A e \in EstIds, c \in CurIds :
       MatriculasDelPar(e, c) # {} =>
         LET r == matricular_estudiante(e, c) IN
           r.status = HTTP_BAD_REQUEST /\ SinEscribir(r)

C1_Witness ==
  \E e \in DOMAIN estudiantes, c \in DOMAIN cursos :
    /\ MatriculasDelPar(e, c) # {}
    /\ Cardinality(matriculas) = 2
    /\ matricular_estudiante(e, c).status = HTTP_BAD_REQUEST

\* C2: no two students share a cedula and no two courses share a codigo; a
\* create, or an update of a stored record to a different cedula/codigo, whose
\* body (one that passes validation) carries a cedula/codigo already stored is
\* answered 400 and writes nothing.
CedulasUnicas ==
  \A i, j \in DOMAIN estudiantes :
    estudiantes[i].cedula = estudiantes[j].cedula => i = j
CodigosUnicos ==
  \A i, j \in DOMAIN cursos : cursos[i].codigo = cursos[j].codigo => i = j

C2_ClavesUnicas ==
  /\ CedulasUnicas
  /\ CodigosUnicos
  /\ \A b \in EstudianteBodies :
       (ValidaEstudiante(b) /\ \E j \in DOMAIN estudiantes : estudiantes[j].cedula = b.cedula)
         => /\ crear_estudiante(b).status = HTTP_BAD_REQUEST
            /\ SinEscribir(crear_estudiante(b))
            /\ \A i \in DOMAIN estudiantes :
                 b.cedula # estudiantes[i].cedula =>
                   /\ actualizar_estudiante(i, b).status = HTTP_BAD_REQUEST
                   /\ SinEscribir(actualizar_estudiante(i, b))
  /\ \A b \in CursoBodies :
       (ValidaCurso(b) /\ \E j \in DOMAIN cursos : cursos[j].codigo = b.codigo)
         => /\ crear_curso(b).status = HTTP_BAD_REQUEST
            /\ SinEscribir(crear_curso(b))
            /\ \A i \in DOMAIN cursos :
                 b.codigo # cursos[i].codigo =>
                   /\ actualizar_curso(i, b).status = HTTP_BAD_REQUEST
                   /\ SinEscribir(actualizar_curso(i, b))

C2_Witness ==
  /\ Cardinality(DOMAIN estudiantes) = 2
  /\ Cardinality(DOMAIN cursos) = 2
  /\ \E i \in DOMAIN estudiantes, b \in EstudianteBodies :
       /\ EnRangoEst(b)
       /\ b.cedula # estudiantes[i].cedula
       /\ crear_estudiante(b).status = HTTP_BAD_REQUEST
       /\ actualizar_estudiante(i, b).status = HTTP_BAD_REQUEST

\* C3: a delete of a stored student (course) is answered 200 and commits, in
\* one step, tables in which the entity is gone, no matricula row carries its
\* id, the rows of the others are kept, and no students-of-course
\* (courses-of-student) result lists it; no state has a row whose student or
\* course is gone.
C3_EliminarEnCascada ==
  /\ SinReferenciasColgantes
  /\ \A e \in DOMAIN estudiantes :
       LET r == eliminar_estudiante(e) IN
         /\ r.status = HTTP_OK
         /\ r.estudiantes = Quitar(estudiantes, e)
         /\ r.cursos = cursos
         /\ r.matriculas = {m \in matriculas : m.estudiante_id # e}
         /\ \A c \in DOMAIN r.cursos :
              e \notin Elementos(
                EstudiantesDelCurso(r.estudiantes, r.cursos, r.matriculas, c).lista)
  /\ \A c \in DOMAIN cursos :
       LET r == eliminar_curso(c) IN
         /\ r.status = HTTP_OK
         /\ r.cursos = Quitar(cursos, c)
         /\ r.estudiantes = estudiantes
         /\ r.matriculas = {m \in matriculas : m.curso_id # c}
         /\ \A e \in DOMAIN r.estudiantes :
              c \notin Elementos(
                CursosDelEstudiante(r.estudiantes, r.cursos, r.matriculas, e).lista)

\* deleting a student removes its rows and keeps those of another student
C3_Witness ==
  \E e \in DOMAIN estudiantes :
    /\ MatriculasDeEstudiante(e) # {}
    /\ eliminar_estudiante(e).status = HTTP_OK
    /\ eliminar_estudiante(e).matriculas # {}
    /\ eliminar_estudiante(e).matriculas # matriculas

\* C4: a matricular request naming a student or a course that does not exist
\* is answered 404 and writes nothing.
C4_MatricularInexistente ==
  \A e \in EstIds, c \in CurIds :
    (e \notin DOMAIN estudiantes \/ c \notin DOMAIN cursos) =>
      LET r == matricular_estudiante(e, c) IN
        r.status = HTTP_NOT_FOUND /\ SinEscribir(r)

C4_Witness ==
  \E e \in DOMAIN estudiantes, c \in CurIds \ DOMAIN cursos :
    /\ matriculas # {}
    /\ matricular_estudiante(e, c).status = HTTP_NOT_FOUND

\* C5: for every stored student the courses-of-student result is exactly the
\* courses the student has a matricula row for, each once, and total_cursos is
\* their number; the students-of-course result likewise; after an unenroll
\* from one of the courses the result is the other courses.
C5_ConsultasExactas ==
  /\ \A e \in DOMAIN estudiantes :
       LET r == cursos_del_estudiante(e) IN
         /\ r.status = HTTP_OK
         /\ Elementos(r.lista) = CursosMatriculados(e)
         /\ r.total = Cardinality(CursosMatriculados(e))
         /\ Len(r.lista) = r.total
  /\ \A c \in DOMAIN cursos :
       LET r == estudiantes_del_curso(c) IN
         /\ r.status = HTTP_OK
         /\ Elementos(r.lista) = EstudiantesMatriculados(c)
         /\ r.total = Cardinality(EstudiantesMatriculados(c))
         /\ Len(r.lista) = r.total
  /\ \A e \in DOMAIN estudiantes : \A c \in CursosMatriculados(e) :
       LET r == desmatricular_estudiante(e, c) IN
         /\ r.status = HTTP_OK
         /\ Elementos(CursosDelEstudiante(r.estudiantes, r.cursos, r.matriculas,
                                           e).lista)
              = CursosMatriculados(e) \ {c}

\* a student enrolled in courses a and b is unenrolled from a: the result is b
C5_Witness ==
  \E e \in DOMAIN estudiantes, a, b \in DOMAIN cursos :
    /\ a # b
    /\ CursosMatriculados(e) = {a, b}
    /\ cursos_del_estudiante(e).total = 2
    /\ LET r == desmatricular_estudiante(e, a) IN
         /\ r.status = HTTP_OK
         /\ CursosDelEstudiante(r.estudiantes, r.cursos, r.matriculas, e).lista = <<b>>

\* C6: an update with a body that passes validation is answered 404 when the
\* id is absent and 400 when the new cedula/codigo differs from the record's
\* own and is that of another record, both without writing; otherwise
\* (also when the cedula/codigo is kept) it is answered 200, the record holds
\* exactly the body's four fields under the same id, and every other record
\* and every matricula row is as before.
C6_Actualizar ==
  /\ \A i \in EstIds, b \in EstudianteBodies :
       ValidaEstudiante(b) =>
         LET r == actualizar_estudiante(i, b) IN
           IF i \notin DOMAIN estudiantes
           THEN r.status = HTTP_NOT_FOUND /\ SinEscribir(r)
           ELSE IF /\ b.cedula # estudiantes[i].cedula
                   /\ \E j \in DOMAIN estudiantes \ {i} :
                        estudiantes[j].cedula = b.cedula
           THEN r.status = HTTP_BAD_REQUEST /\ SinEscribir(r)
           ELSE /\ r.status = HTTP_OK
                /\ DOMAIN r.estudiantes = DOMAIN estudiantes
                /\ r.estudiantes[i] =
                     [cedula |-> b.cedula, nombre |-> b.nombre,
                      email |-> b.email, semestre |-> b.semestre]
                /\ \A j \in DOMAIN estudiantes \ {i} :
                     r.estudiantes[j] = estudiantes[j]
                /\ r.cursos = cursos
                /\ r.matriculas = matriculas
  /\ \A i \in CurIds, b \in CursoBodies :
       ValidaCurso(b) =>
         LET r == actualizar_curso(i, b) IN
           IF i \notin DOMAIN cursos
           THEN r.status = HTTP_NOT_FOUND /\ SinEscribir(r)
           ELSE IF /\ b.codigo # cursos[i].codigo
                   /\ \E j \in DOMAIN cursos \ {i} : cursos[j].codigo = b.codigo
           THEN r.status = HTTP_BAD_REQUEST /\ SinEscribir(r)
           ELSE /\ r.status = HTTP_OK
                /\ DOMAIN r.cursos = DOMAIN cursos
                /\ r.cursos[i] =
                     [codigo |-> b.codigo, nombre |-> b.nombre,
                      creditos |-> b.creditos, horario |-> b.horario]
                /\ \A j \in DOMAIN cursos \ {i} : r.cursos[j] = cursos[j]
                /\ r.estudiantes = estudiantes
                /\ r.matriculas = matriculas

\* an update that keeps the cedula, with another student and a row stored
C6_Witness ==
  \E i \in DOMAIN estudiantes, b \in EstudianteBodies :
    /\ Cardinality(DOMAIN estudiantes) = 2
    /\ matriculas # {}
    /\ b.cedula = estudiantes[i].cedula
    /\ b.nombre # estudiantes[i].nombre
    /\ actualizar_estudiante(i, b).status = HTTP_OK

\* C7: every stored semestre is in 1..12 and every stored creditos in 1..10; a
\* create or update whose body is out of range is refused by validation (422)
\* and writes nothing.
C7_Rangos ==
  /\ \A i \in DOMAIN estudiantes : EnRangoEst(estudiantes[i])
  /\ \A i \in DOMAIN cursos : EnRangoCur(cursos[i])
  /\ \A b \in EstudianteBodies :
       ~EnRangoEst(b) =>
         /\ crear_estudiante(b).status = HTTP_UNPROCESSABLE
         /\ SinEscribir(crear_estudiante(b))
         /\ \A i \in EstIds :
              /\ actualizar_estudiante(i, b).status = HTTP_UNPROCESSABLE
              /\ SinEscribir(actualizar_estudiante(i, b))
  /\ \A b \in CursoBodies :
       ~EnRangoCur(b) =>
         /\ crear_curso(b).status = HTTP_UNPROCESSABLE
         /\ SinEscribir(crear_curso(b))
         /\ \A i \in CurIds :
              /\ actualizar_curso(i, b).status = HTTP_UNPROCESSABLE
              /\ SinEscribir(actualizar_curso(i, b))

\* C8: once concurrent matricular requests for the same pair have all
\* finished, the pair has at most one matricula row.
C8_UnaFilaPorPar ==
  (\A s \in Sesiones : ses[s].pc = "libre") =>
    \A e \in EstIds, c \in CurIds : Cardinality(MatriculasDelPar(e, c)) <= 1

\* C9: listing with semestre = v returns exactly the students whose semestre is
\* v, for every integer v, and all students only when no filter is given;
\* listing courses with creditos = k, or with a code filter, likewise.
C9_FiltrosExactos ==
  /\ listar_estudiantes(None) = DOMAIN estudiantes
  /\ \A v \in FiltroEnteros :
       listar_estudiantes(Some(v)) =
         {i \in DOMAIN estudiantes : estudiantes[i].semestre = v}
  /\ \A k \in FiltroEnteros :
       listar_cursos(Some(k), None) =
         {i \in DOMAIN cursos : cursos[i].creditos = k}
  /\ \A t \in FiltroCodigos :
       listar_cursos(None, Some(t)) =
         {i \in DOMAIN cursos : Contiene(cursos[i].codigo, t)}

\* C10: every matricula row references a student and a course that exist, also
\* when matricular and eliminar requests interleave.
C10_IntegridadReferencial ==
  \A m \in matriculas :
    m.estudiante_id \in DOMAIN estudiantes /\ m.curso_id \in DOMAIN cursos
====
